---------------------------- MODULE Spec2Model ----------------------------
(***************************************************************************)
(* Streaming/output subsystem of digital-avatar-project:                   *)
(*   RTMPStreamer   (modules/streaming/rtmp_streamer.py)                    *)
(*   VirtualCamera  (modules/streaming/virtual_camera.py)                   *)
(*   StreamManager  (modules/streaming/stream_manager.py)                   *)
(*                                                                         *)
(* One behaviour follows one object (inst) driven by one control thread    *)
(* that makes the public calls one after the other, while the object's     *)
(* background threads and its external encoder processes run concurrently. *)
(* The control thread's position inside a call is pc; a call made from     *)
(* inside another call (send_frame -> stop_streaming) pushes the label to   *)
(* continue at on stack.  Calls are cut into steps at every access to a     *)
(* field a background thread also reads or writes, and at every blocking    *)
(* call (Thread.join, Popen.wait).                                          *)
(***************************************************************************)
EXTENDS Integers, Sequences, FiniteSets, TLC

\* ------------------------------------------------------------------ bounds
\* external encoder processes one object may spawn in a behaviour
MaxProcs == 2
\* threads an RTMPStreamer or a StreamManager may start in a behaviour
MaxThreads == 2
\* threads (device and playback) a VirtualCamera may start in a behaviour
MaxCameraThreads == 3
\* distinct images the user passes to send_frame
MaxFrames == 1
\* items push_content may accept in a behaviour
MaxItems == 3
\* longest resolution string tried, the named ones apart
MaxLen == 4
\* largest configured max_history of a ChatbotManager
MaxHistory == 2
\* add_message calls made on one ChatbotManager
MaxMessages == 4

ProcIds == 1..MaxProcs
ThreadIds == 1..(IF MaxCameraThreads > MaxThreads THEN MaxCameraThreads ELSE MaxThreads)

\* Python's None for a process or thread handle
None == 0

VARIABLES
  inst,              \* the class of the object: RTMPStreamer, VirtualCamera,
                     \* StreamManager, ChatbotManager
  avail,             \* the machine: "ok"; "missing": no ffmpeg binary, no
                     \* pyvirtualcam; "denied": the camera device cannot be created
  pc, stack,         \* control thread: position, and labels to return to
  ret,               \* the public call in progress or last finished, with its value
  rv,                \* value returned by the last function that returned
  streaming,         \* self.streaming
  ffmpeg_process,    \* self.ffmpeg_process (RTMPStreamer)
  stream_thread,     \* self.stream_thread
  thread_stop_event, \* self.thread_stop_event (is it set)
  procs,             \* external processes: kind, alive, stdin_closed
  threads,           \* background threads: kind, pc, x (the process a thread owns)
  camera,            \* self.camera (VirtualCamera): the thread whose device it is
  current_frame,     \* self.current_frame
  sent,              \* the frame last handed to a camera device (cam.send)
  video_thread,      \* self.video_thread; None also when the attribute is not set
  video_thread_stop, \* self.video_thread_stop: "unset" (no attribute), "clear", "set"
  platform,          \* self.platform (StreamManager)
  is_streaming,      \* self.is_streaming (StreamManager)
  stream_process,    \* self.stream_process
  content_queue,     \* self.content_queue, oldest first
  pushed,            \* number of items push_content has accepted; item n is the n-th
  published,         \* the items handed to _stream_content, in the order of the calls
  config,            \* config["resolution"] of the config given to the object: a
                     \* string, as the sequence of its characters
  resolution,        \* self.resolution; (self.width, self.height) of a StreamManager
  max_history,       \* self.max_history (ChatbotManager)
  conversation_history, \* self.conversation_history, oldest first
  added              \* every message add_message was given, in the order of the calls

ctl == <<pc, stack, ret, rv>>
vcOnly == <<camera, current_frame, sent, video_thread, video_thread_stop>>
smOnly == <<platform, is_streaming, stream_process, content_queue, pushed, published>>
cbOnly == <<max_history, conversation_history, added>>
vars == <<inst, avail, pc, stack, ret, rv, streaming, ffmpeg_process,
          stream_thread, thread_stop_event, procs, threads, vcOnly, smOnly,
          config, resolution, cbOnly>>

\* buffered: frames sit in the buffer (bufsize=10**8) of the stdin pipe
\* signalled: terminate() was called on the process
NoProc == [kind |-> "none", alive |-> FALSE, stdin_closed |-> FALSE,
           buffered |-> FALSE, signalled |-> FALSE]
Spawned(k) == [kind |-> k, alive |-> TRUE, stdin_closed |-> FALSE,
               buffered |-> FALSE, signalled |-> FALSE]
\* proc, item: the locals of the thread's function
NoThread == [kind |-> "none", pc |-> "unstarted", proc |-> None, item |-> None]
Started(k, label) == [kind |-> k, pc |-> label, proc |-> None, item |-> None]
\* frames: None, the placeholder of initialize, an image of the user, a frame
\* decoded by playback thread id
NoFrame == [src |-> "none", id |-> None]
Placeholder == [src |-> "zeros", id |-> None]
UserFrame(n) == [src |-> "user", id |-> n]
VideoFrame(t) == [src |-> "video", id |-> t]

FreeProcs == {p \in ProcIds : procs[p].kind = "none"}
FreeThreads == {t \in ThreadIds :
                  /\ threads[t].kind = "none"
                  /\ t <= (IF inst = "VirtualCamera" THEN MaxCameraThreads ELSE MaxThreads)}
\* handles are given out in order, as Popen and Thread create fresh objects
NewProc == CHOOSE p \in FreeProcs : \A q \in FreeProcs : p <= q
NewThread == CHOOSE t \in FreeThreads : \A u \in FreeThreads : t <= u

\* Thread.is_alive()
is_alive(t) == t # None /\ threads[t].kind # "none" /\ threads[t].pc # "dead"
\* Popen.poll() is None
Running(p) == p # None /\ procs[p].alive

\* Thread.join(timeout) returns with the thread still alive only when the
\* thread sits in a call that can last longer than the timeout; in every other
\* place the thread reaches its end, or such a call, well within it.
\*   _stream_video_thread: process.wait(timeout=5) on an encoder that does not
\*   exit on SIGTERM (started after the join, so it ends after it)
VideoThreadBlocked(t) ==
  threads[t].kind = "video" /\ threads[t].pc = "wait" /\ procs[threads[t].proc].alive
\*   _video_thread: the playback loop runs until thread_stop_event is set
PlaybackRuns(t) ==
  threads[t].kind = "playback" /\ threads[t].pc = "loop" /\ ~thread_stop_event
\*   _stream_rtmp: reading stderr of, or waiting for, an encoder that plays a
\*   file at its real-time rate (-re)
WorkerBlocked(t) ==
  /\ threads[t].kind = "worker"
  /\ threads[t].pc \in {"rtmp_lines", "rtmp_waiting"}
  /\ procs[threads[t].proc].alive
\* `if h and h.is_alive(): h.join(timeout=...)` lets the caller go on
Joined(h) == ~is_alive(h)
TimedOut(h) ==
  is_alive(h) /\ (VideoThreadBlocked(h) \/ PlaybackRuns(h) \/ WorkerBlocked(h))

AliveProcs == {p \in ProcIds : procs[p].alive}
AliveThreads(k) == {t \in ThreadIds : threads[t].kind = k /\ threads[t].pc # "dead"}

\* ------------------------------------------------------- resolution strings
\* A string is the sequence of its characters.
S1080p == <<"1", "0", "8", "0", "p">>
S720p == <<"7", "2", "0", "p">>
S480p == <<"4", "8", "0", "p">>
S360p == <<"3", "6", "0", "p">>

\* every string of k characters or fewer out of "0", "1", "x", "p", "-"
RECURSIVE StringsUpTo(_)
StringsUpTo(k) ==
  IF k = 0 THEN {<< >>}
  ELSE LET shorter == StringsUpTo(k - 1)
       IN  shorter \cup {Append(s, c) : s \in {t \in shorter : Len(t) = k - 1},
                                        c \in {"0", "1", "x", "p", "-"}}

Digits == <<"0", "1", "2", "3", "4", "5", "6", "7", "8", "9">>
IsDigit(c) == \E d \in 1..10 : Digits[d] = c
DigitVal(c) == (CHOOSE d \in 1..10 : Digits[d] = c) - 1

\* "x" in s
HasX(s) == \E i \in 1..Len(s) : s[i] = "x"

\* s.split("x"): the pieces between the occurrences of "x"
RECURSIVE split(_)
split(s) ==
  IF ~HasX(s) THEN <<s>>
  ELSE LET i == CHOOSE k \in 1..Len(s) :
                    s[k] = "x" /\ \A j \in 1..(k - 1) : s[j] # "x"
       IN  <<SubSeq(s, 1, i - 1)>> \o split(SubSeq(s, i + 1, Len(s)))

\* int(s) raises ValueError unless s is a sign (here "-") or none, followed
\* by one digit or more
IsIntLiteral(s) ==
  LET body == IF s # << >> /\ s[1] = "-" THEN Tail(s) ELSE s
  IN  body # << >> /\ \A i \in 1..Len(body) : IsDigit(body[i])
RECURSIVE DecimalValue(_)
DecimalValue(s) ==
  IF s = << >> THEN 0
  ELSE 10 * DecimalValue(SubSeq(s, 1, Len(s) - 1)) + DigitVal(s[Len(s)])
int(s) == IF s[1] = "-" THEN 0 - DecimalValue(Tail(s)) ELSE DecimalValue(s)

\* (1280, 720): the default of both constructors and of every fallback
Default720 == <<1280, 720>>
\* self.width, self.height before __init__ has set them
NoResolution == << >>

\* a parser that gives up with no value where the code falls back
parse_resolution_no_default(r) ==
  IF r = S480p THEN <<854, 480>>
  ELSE IF r = S720p THEN <<1280, 720>>
  ELSE IF r = S1080p THEN <<1920, 1080>>
  ELSE IF HasX(r) /\ Len(split(r)) = 2
            /\ IsIntLiteral(split(r)[1]) /\ IsIntLiteral(split(r)[2])
         THEN <<int(split(r)[1]), int(split(r)[2])>>
         ELSE NoResolution

\* StreamManager._parse_resolution(resolution), lines 46-73
parse_resolution(r) ==
  IF r = S480p THEN <<854, 480>>
  ELSE IF r = S720p THEN <<1280, 720>>
  ELSE IF r = S1080p THEN <<1920, 1080>>
  ELSE IF HasX(r)
    THEN LET parts == split(r)
         IN  IF Len(parts) = 2
               THEN IF IsIntLiteral(parts[1]) /\ IsIntLiteral(parts[2])
                      THEN <<int(parts[1]), int(parts[2])>>
                      ELSE Default720
               ELSE Default720
    ELSE Default720

\* the if-chain on config.get("resolution", "720p") in the initialize of both
\* backends (rtmp_streamer.py 76-88, virtual_camera.py 63-74)
initialize_resolution(r) ==
  IF r = S1080p THEN <<1920, 1080>>
  ELSE IF r = S720p THEN <<1280, 720>>
  ELSE IF r = S480p THEN <<854, 480>>
  ELSE IF r = S360p THEN <<640, 360>>
  ELSE Default720

\* ------------------------------------------------------- the control thread
\* a public method is entered from the idle control thread
\* (arg: what the model keeps of the call's arguments)
Call(op, arg, label) ==
  /\ pc = "idle"
  /\ pc' = label
  /\ stack' = <<>>
  /\ ret' = [op |-> op, arg |-> arg, val |-> "pending"]
  /\ rv' = "None"

\* a method calls another method of the object and continues at `back`
Invoke(label, back) ==
  /\ pc' = label
  /\ stack' = <<back>> \o stack
  /\ UNCHANGED <<ret, rv>>

\* return v: to the caller inside the object, or to the user of the object
Return(v) ==
  /\ rv' = v
  /\ IF stack = <<>>
       THEN pc' = "idle" /\ ret' = [ret EXCEPT !.val = v] /\ stack' = stack
       ELSE pc' = Head(stack) /\ stack' = Tail(stack) /\ ret' = ret

Goto(label) == pc' = label /\ UNCHANGED <<stack, ret, rv>>

IsRT == inst = "RTMPStreamer"
IsVC == inst = "VirtualCamera"
IsSM == inst = "StreamManager"

\* --------------------------------------------------------------- RTMPStreamer
\* what no step of an RTMPStreamer touches (self.resolution: initialize apart)
rtBack == <<inst, avail, cbOnly, config, resolution, vcOnly, smOnly>>

\* initialize(config), lines 45-111: False when `ffmpeg -version` cannot be run
RT_initialize ==
  /\ IsRT /\ Call("initialize", "", "init")
  /\ UNCHANGED <<rtBack, streaming, ffmpeg_process, stream_thread,
                 thread_stop_event, procs, threads>>

\* self.resolution is set from config["resolution"] (lines 76-88);
\* subprocess.run(["ffmpeg", "-version"], ...); the fifo is created; return True
RT_init ==
  /\ IsRT /\ pc = "init"
  /\ resolution' = initialize_resolution(config)
  /\ Return(IF avail = "ok" THEN "True" ELSE "False")
  /\ UNCHANGED <<inst, avail, cbOnly, config, vcOnly, smOnly, streaming, ffmpeg_process,
                 stream_thread, thread_stop_event, procs, threads>>

\* start_streaming(), lines 113-168
RT_start_streaming ==
  /\ IsRT /\ Call("start_streaming", "", "start_check")
  /\ UNCHANGED <<rtBack, streaming, ffmpeg_process, stream_thread,
                 thread_stop_event, procs, threads>>

\* start_streaming without its first test (lines 120-122)
RT_start_check_unguarded ==
  /\ IsRT /\ pc = "start_check"
  /\ Goto("start_popen")
  /\ UNCHANGED <<rtBack, streaming, ffmpeg_process, stream_thread,
                 thread_stop_event, procs, threads>>

\* if self.streaming: return True
RT_start_check ==
  /\ IsRT /\ pc = "start_check"
  /\ IF streaming THEN Return("True") ELSE Goto("start_popen")
  /\ UNCHANGED <<rtBack, streaming, ffmpeg_process, stream_thread,
                 thread_stop_event, procs, threads>>

\* a Popen that starts an encoder whether or not the binary can be run
RT_start_popen_present ==
  /\ IsRT /\ pc = "start_popen"
  /\ FreeProcs # {}
  /\ procs' = [procs EXCEPT ![NewProc] = Spawned("raw")]
  /\ ffmpeg_process' = NewProc
  /\ Goto("start_set")
  /\ UNCHANGED <<rtBack, streaming, stream_thread, thread_stop_event, threads>>

\* self.ffmpeg_process = subprocess.Popen(cmd, stdin=PIPE, ...); raises when
\* the binary cannot be run, and the except branch returns False
RT_start_popen ==
  /\ IsRT /\ pc = "start_popen"
  /\ IF avail = "ok"
       THEN /\ FreeProcs # {}
            /\ procs' = [procs EXCEPT ![NewProc] = Spawned("raw")]
            /\ ffmpeg_process' = NewProc
            /\ Goto("start_set")
       ELSE /\ Return("False")
            /\ UNCHANGED <<procs, ffmpeg_process>>
  /\ UNCHANGED <<rtBack, streaming, stream_thread, thread_stop_event, threads>>

\* self.streaming = True
RT_start_set ==
  /\ IsRT /\ pc = "start_set"
  /\ streaming' = TRUE
  /\ Goto("start_clear")
  /\ UNCHANGED <<rtBack, ffmpeg_process, stream_thread, thread_stop_event,
                 procs, threads>>

\* self.thread_stop_event.clear(); return True
RT_start_clear ==
  /\ IsRT /\ pc = "start_clear"
  /\ thread_stop_event' = FALSE
  /\ Return("True")
  /\ UNCHANGED <<rtBack, streaming, ffmpeg_process, stream_thread, procs, threads>>

\* stop_streaming(), lines 170-203
RT_stop_streaming ==
  /\ IsRT /\ Call("stop_streaming", "", "stop_check")
  /\ UNCHANGED <<rtBack, streaming, ffmpeg_process, stream_thread,
                 thread_stop_event, procs, threads>>

\* stop_streaming without its first test (lines 177-179)
RT_stop_check_unguarded ==
  /\ IsRT /\ pc = "stop_check"
  /\ Goto("stop_set")
  /\ UNCHANGED <<rtBack, streaming, ffmpeg_process, stream_thread,
                 thread_stop_event, procs, threads>>

\* if not self.streaming: return True
RT_stop_check ==
  /\ IsRT /\ pc = "stop_check"
  /\ IF ~streaming THEN Return("True") ELSE Goto("stop_set")
  /\ UNCHANGED <<rtBack, streaming, ffmpeg_process, stream_thread,
                 thread_stop_event, procs, threads>>

\* self.thread_stop_event.set()
RT_stop_set ==
  /\ IsRT /\ pc = "stop_set"
  /\ thread_stop_event' = TRUE
  /\ Goto("stop_join")
  /\ UNCHANGED <<rtBack, streaming, ffmpeg_process, stream_thread, procs, threads>>

\* if self.stream_thread and self.stream_thread.is_alive():
\*     self.stream_thread.join(timeout=5)
\* join returns when the thread has ended, or after 5 s with the thread alive
RT_stop_join ==
  /\ IsRT /\ pc = "stop_join"
  /\ Joined(stream_thread) \/ TimedOut(stream_thread)
  /\ Goto("stop_close")
  /\ UNCHANGED <<rtBack, streaming, ffmpeg_process, stream_thread,
                 thread_stop_event, procs, threads>>

\* if self.ffmpeg_process: self.ffmpeg_process.stdin.close()
\* closing flushes the buffered frames: with the encoder gone the flush raises
\* BrokenPipeError (the pipe is closed all the same, a second close does
\* nothing) and stop_streaming returns False from its except branch
RT_stop_close ==
  /\ IsRT /\ pc = "stop_close"
  /\ IF ffmpeg_process = None
       THEN Goto("stop_clear") /\ UNCHANGED procs
       ELSE /\ procs' = [procs EXCEPT ![ffmpeg_process].stdin_closed = TRUE]
            /\ \/ Goto("stop_wait")
               \/ /\ ~procs[ffmpeg_process].alive
                  /\ procs[ffmpeg_process].buffered
                  /\ ~procs[ffmpeg_process].stdin_closed
                  /\ Return("False")
  /\ UNCHANGED <<rtBack, streaming, ffmpeg_process, stream_thread,
                 thread_stop_event, threads>>

\* self.ffmpeg_process.wait(timeout=5); self.ffmpeg_process = None
\* wait raises TimeoutExpired while the encoder has not exited
RT_stop_wait ==
  /\ IsRT /\ pc = "stop_wait"
  /\ IF procs[ffmpeg_process].alive
       THEN Return("False") /\ UNCHANGED ffmpeg_process
       ELSE Goto("stop_clear") /\ ffmpeg_process' = None
  /\ UNCHANGED <<rtBack, streaming, stream_thread, thread_stop_event, procs, threads>>

\* self.streaming = False; return True
RT_stop_clear ==
  /\ IsRT /\ pc = "stop_clear"
  /\ streaming' = FALSE
  /\ Return("True")
  /\ UNCHANGED <<rtBack, ffmpeg_process, stream_thread, thread_stop_event,
                 procs, threads>>

\* send_frame(frame), lines 214-247
RT_send_frame ==
  /\ IsRT /\ Call("send_frame", "", "frame_check")
  /\ UNCHANGED <<rtBack, streaming, ffmpeg_process, stream_thread,
                 thread_stop_event, procs, threads>>

\* if not self.streaming or not self.ffmpeg_process: return False
RT_frame_check ==
  /\ IsRT /\ pc = "frame_check"
  /\ IF ~streaming \/ ffmpeg_process = None
       THEN Return("False") ELSE Goto("frame_write")
  /\ UNCHANGED <<rtBack, streaming, ffmpeg_process, stream_thread,
                 thread_stop_event, procs, threads>>

\* the try block: resize, convert, self.ffmpeg_process.stdin.write(...)
\*   frame_ok: the frame is an image the conversions accept.
\* The frame goes into the buffer of the pipe (a frame is smaller than
\* bufsize=10**8), after a flush of the buffer when it is full.  The write
\* raises ValueError on a closed pipe and BrokenPipeError when that flush goes
\* to an encoder that has exited; with the encoder gone a write that only
\* fills the buffer still succeeds.
\* except: self.stop_streaming(); self.start_streaming(); return False
RT_frame_write ==
  /\ IsRT /\ pc = "frame_write"
  /\ \E frame_ok \in BOOLEAN :
       \/ /\ frame_ok
          /\ ~procs[ffmpeg_process].stdin_closed
          /\ procs' = [procs EXCEPT ![ffmpeg_process].buffered = TRUE]
          /\ Return("True")
       \/ /\ \/ ~frame_ok
             \/ procs[ffmpeg_process].stdin_closed
             \/ ~procs[ffmpeg_process].alive /\ procs[ffmpeg_process].buffered
          /\ UNCHANGED procs
          /\ Invoke("stop_check", "frame_restart")
  /\ UNCHANGED <<rtBack, streaming, ffmpeg_process, stream_thread,
                 thread_stop_event, threads>>

\* self.start_streaming()
RT_frame_restart ==
  /\ IsRT /\ pc = "frame_restart"
  /\ Invoke("start_check", "frame_fail")
  /\ UNCHANGED <<rtBack, streaming, ffmpeg_process, stream_thread,
                 thread_stop_event, procs, threads>>

\* return False
RT_frame_fail ==
  /\ IsRT /\ pc = "frame_fail"
  /\ Return("False")
  /\ UNCHANGED <<rtBack, streaming, ffmpeg_process, stream_thread,
                 thread_stop_event, procs, threads>>

\* send_audio(audio_data), lines 249-260: a warning, return False
RT_send_audio ==
  /\ IsRT /\ Call("send_audio", "", "audio")
  /\ UNCHANGED <<rtBack, streaming, ffmpeg_process, stream_thread,
                 thread_stop_event, procs, threads>>

\* send_audio reporting success
RT_audio_accepted ==
  /\ IsRT /\ pc = "audio"
  /\ Return("True")
  /\ UNCHANGED <<rtBack, streaming, ffmpeg_process, stream_thread,
                 thread_stop_event, procs, threads>>

RT_audio ==
  /\ IsRT /\ pc = "audio"
  /\ Return("False")
  /\ UNCHANGED <<rtBack, streaming, ffmpeg_process, stream_thread,
                 thread_stop_event, procs, threads>>

\* send_video(video_path), lines 310-347
\*   exists: os.path.exists(video_path)
RT_send_video ==
  /\ IsRT
  /\ \E exists \in BOOLEAN :
       Call("send_video", IF exists THEN "exists" ELSE "missing", "video_exists")
  /\ UNCHANGED <<rtBack, streaming, ffmpeg_process, stream_thread,
                 thread_stop_event, procs, threads>>

\* send_video going on without looking at the path
RT_video_exists_unchecked ==
  /\ IsRT /\ pc = "video_exists"
  /\ Goto("video_check")
  /\ UNCHANGED <<rtBack, streaming, ffmpeg_process, stream_thread,
                 thread_stop_event, procs, threads>>

\* if not os.path.exists(video_path): return False
RT_video_exists ==
  /\ IsRT /\ pc = "video_exists"
  /\ IF ret.arg = "missing" THEN Return("False") ELSE Goto("video_check")
  /\ UNCHANGED <<rtBack, streaming, ffmpeg_process, stream_thread,
                 thread_stop_event, procs, threads>>

\* if self.streaming: self.stop_streaming()      (its result is not looked at)
RT_video_check ==
  /\ IsRT /\ pc = "video_check"
  /\ IF streaming THEN Invoke("stop_check", "video_set") ELSE Goto("video_set")
  /\ UNCHANGED <<rtBack, streaming, ffmpeg_process, stream_thread,
                 thread_stop_event, procs, threads>>

\* self.streaming = True
RT_video_set ==
  /\ IsRT /\ pc = "video_set"
  /\ streaming' = TRUE
  /\ Goto("video_clear")
  /\ UNCHANGED <<rtBack, ffmpeg_process, stream_thread, thread_stop_event,
                 procs, threads>>

\* self.thread_stop_event.clear()
RT_video_clear ==
  /\ IsRT /\ pc = "video_clear"
  /\ thread_stop_event' = FALSE
  /\ Goto("video_thread")
  /\ UNCHANGED <<rtBack, streaming, ffmpeg_process, stream_thread, procs, threads>>

\* self.stream_thread = threading.Thread(target=self._stream_video_thread, ...)
\* self.stream_thread.start(); return True
RT_video_thread ==
  /\ IsRT /\ pc = "video_thread"
  /\ FreeThreads # {}
  /\ threads' = [threads EXCEPT ![NewThread] = Started("video", "popen")]
  /\ stream_thread' = NewThread
  /\ Return("True")
  /\ UNCHANGED <<rtBack, streaming, ffmpeg_process, thread_stop_event, procs>>

\* cleanup(), lines 366-384
RT_cleanup ==
  /\ IsRT /\ Call("cleanup", "", "cleanup_check")
  /\ UNCHANGED <<rtBack, streaming, ffmpeg_process, stream_thread,
                 thread_stop_event, procs, threads>>

\* if self.streaming: self.stop_streaming()
RT_cleanup_check ==
  /\ IsRT /\ pc = "cleanup_check"
  /\ IF streaming THEN Invoke("stop_check", "cleanup_files") ELSE Goto("cleanup_files")
  /\ UNCHANGED <<rtBack, streaming, ffmpeg_process, stream_thread,
                 thread_stop_event, procs, threads>>

\* the fifo and the temporary directory are removed; nothing is returned
RT_cleanup_files ==
  /\ IsRT /\ pc = "cleanup_files"
  /\ Return("None")
  /\ UNCHANGED <<rtBack, streaming, ffmpeg_process, stream_thread,
                 thread_stop_event, procs, threads>>

\* _stream_video_thread(video_path), lines 262-308, run by thread t
\* process = subprocess.Popen(cmd, ...); an exception goes to finally
RT_thread_popen(t) ==
  /\ threads[t].kind = "video" /\ threads[t].pc = "popen"
  /\ IF avail = "ok"
       THEN /\ FreeProcs # {}
            /\ procs' = [procs EXCEPT ![NewProc] = Spawned("oneshot")]
            /\ threads' = [threads EXCEPT ![t] = [@ EXCEPT !.pc = "poll", !.proc = NewProc]]
       ELSE /\ threads' = [threads EXCEPT ![t].pc = "finally"]
            /\ UNCHANGED procs
  /\ UNCHANGED <<rtBack, ctl, streaming, ffmpeg_process, stream_thread, thread_stop_event>>

\* while not self.thread_stop_event.is_set():
\*     if process.poll() is not None: break
\*     time.sleep(0.1)
RT_thread_poll(t) ==
  /\ threads[t].kind = "video" /\ threads[t].pc = "poll"
  /\ thread_stop_event \/ ~procs[threads[t].proc].alive
  /\ threads' = [threads EXCEPT ![t].pc = "terminate"]
  /\ UNCHANGED <<rtBack, ctl, streaming, ffmpeg_process, stream_thread,
                 thread_stop_event, procs>>

\* if process.poll() is None: process.terminate(); process.wait(timeout=5)
RT_thread_terminate(t) ==
  /\ threads[t].kind = "video" /\ threads[t].pc = "terminate"
  /\ IF procs[threads[t].proc].alive
       THEN /\ procs' = [procs EXCEPT ![threads[t].proc].signalled = TRUE]
            /\ threads' = [threads EXCEPT ![t].pc = "wait"]
       ELSE /\ threads' = [threads EXCEPT ![t].pc = "finally"]
            /\ UNCHANGED procs
  /\ UNCHANGED <<rtBack, ctl, streaming, ffmpeg_process, stream_thread,
                 thread_stop_event>>

\* process.wait(timeout=5) returns once the process has exited, or raises
\* TimeoutExpired with the process still running; both lead to finally
RT_thread_wait(t) ==
  /\ threads[t].kind = "video" /\ threads[t].pc = "wait"
  /\ \/ ~procs[threads[t].proc].alive
     \/ procs[threads[t].proc].alive
  /\ threads' = [threads EXCEPT ![t].pc = "finally"]
  /\ UNCHANGED <<rtBack, ctl, streaming, ffmpeg_process, stream_thread,
                 thread_stop_event, procs>>

\* a thread that ends without touching the flag
RT_thread_finally_silent(t) ==
  /\ threads[t].kind = "video" /\ threads[t].pc = "finally"
  /\ threads' = [threads EXCEPT ![t].pc = "dead"]
  /\ UNCHANGED <<rtBack, ctl, streaming, ffmpeg_process, stream_thread,
                 thread_stop_event, procs>>

\* finally: self.streaming = False
RT_thread_finally(t) ==
  /\ threads[t].kind = "video" /\ threads[t].pc = "finally"
  /\ streaming' = FALSE
  /\ threads' = [threads EXCEPT ![t].pc = "dead"]
  /\ UNCHANGED <<rtBack, ctl, ffmpeg_process, stream_thread, thread_stop_event, procs>>

\* an encoder process exits: end of input, SIGTERM, a network error, a crash
RT_ProcExit(p) ==
  /\ IsRT /\ procs[p].alive
  /\ procs' = [procs EXCEPT ![p].alive = FALSE]
  /\ UNCHANGED <<rtBack, ctl, streaming, ffmpeg_process, stream_thread,
                 thread_stop_event, threads>>

InitFields ==
  /\ stack = <<>>
  /\ ret = [op |-> "__init__", arg |-> "", val |-> "None"]
  /\ rv = "None"
  /\ streaming = FALSE
  /\ ffmpeg_process = None
  /\ stream_thread = None
  /\ thread_stop_event = FALSE
  /\ procs = [p \in ProcIds |-> NoProc]
  /\ threads = [t \in ThreadIds |-> NoThread]
  /\ camera = None
  /\ current_frame = NoFrame
  /\ sent = NoFrame
  /\ video_thread = None
  /\ video_thread_stop = "unset"
  /\ is_streaming = FALSE
  /\ stream_process = None
  /\ content_queue = <<>>
  /\ pushed = 0
  /\ published = <<>>
  /\ conversation_history = <<>>
  /\ added = <<>>

InitCommon == pc = "idle" /\ max_history = 10 /\ InitFields

\* RTMPStreamer.__init__, lines 26-43
InitRTMP ==
  /\ inst = "RTMPStreamer"
  /\ avail \in {"ok", "missing"}
  /\ platform = "rtmp"
  /\ config = S720p
  /\ resolution = Default720
  /\ InitCommon

NextRTMP ==
  \/ RT_initialize \/ RT_init
  \/ RT_start_streaming \/ RT_start_check \/ RT_start_popen \/ RT_start_set
  \/ RT_start_clear
  \/ RT_stop_streaming \/ RT_stop_check \/ RT_stop_set \/ RT_stop_join
  \/ RT_stop_close \/ RT_stop_wait \/ RT_stop_clear
  \/ RT_send_frame \/ RT_frame_check \/ RT_frame_write \/ RT_frame_restart
  \/ RT_frame_fail
  \/ RT_send_audio \/ RT_audio
  \/ RT_send_video \/ RT_video_exists \/ RT_video_check \/ RT_video_set \/ RT_video_clear
  \/ RT_video_thread
  \/ RT_cleanup \/ RT_cleanup_check \/ RT_cleanup_files
  \/ \E t \in ThreadIds :
        \/ RT_thread_popen(t) \/ RT_thread_poll(t) \/ RT_thread_terminate(t)
        \/ RT_thread_wait(t) \/ RT_thread_finally(t)
  \/ \E p \in ProcIds : RT_ProcExit(p)

SpecRTMP == InitRTMP /\ [][NextRTMP]_vars

\* a started thread (threading.Thread(...).start()) keeps being scheduled:
\* every step of _stream_video_thread that can be taken is eventually taken
RT_ThreadStep(t) ==
  \/ RT_thread_popen(t) \/ RT_thread_poll(t) \/ RT_thread_terminate(t)
  \/ RT_thread_wait(t) \/ RT_thread_finally(t)

FairRTMP == \A t \in ThreadIds : WF_vars(RT_ThreadStep(t))

SpecRTMPFair == SpecRTMP /\ FairRTMP

\* -------------------------------------------------------------- VirtualCamera
\* what no step of a VirtualCamera touches (self.resolution: initialize apart)
vcBack == <<inst, avail, cbOnly, config, resolution, ffmpeg_process, procs, smOnly>>
Frames == 1..MaxFrames

\* initialize(config), lines 42-87: False without pyvirtualcam, else the
\* placeholder frame is created
VC_initialize ==
  /\ IsVC /\ Call("initialize", "", "init")
  /\ UNCHANGED <<vcBack, streaming, stream_thread, thread_stop_event, threads, vcOnly>>

\* if not VIRTUAL_CAMERA_AVAILABLE: return False
\* ...; self.current_frame = np.zeros(...); return True
VC_init ==
  /\ IsVC /\ pc = "init"
  /\ IF avail = "missing"
       THEN /\ Return("False")
            /\ UNCHANGED <<current_frame, resolution>>
       ELSE /\ Return("True")
            /\ resolution' = initialize_resolution(config)
            /\ current_frame' = Placeholder
  /\ UNCHANGED <<inst, avail, cbOnly, config, ffmpeg_process, procs, smOnly,
                 streaming, stream_thread, thread_stop_event, threads,
                 camera, sent, video_thread, video_thread_stop>>

\* start_streaming(), lines 132-159
VC_start_streaming ==
  /\ IsVC /\ Call("start_streaming", "", "start_check")
  /\ UNCHANGED <<vcBack, streaming, stream_thread, thread_stop_event, threads, vcOnly>>

\* if self.streaming: return True
VC_start_check ==
  /\ IsVC /\ pc = "start_check"
  /\ IF streaming THEN Return("True") ELSE Goto("start_clear")
  /\ UNCHANGED <<vcBack, streaming, stream_thread, thread_stop_event, threads, vcOnly>>

\* self.thread_stop_event.clear()
VC_start_clear ==
  /\ IsVC /\ pc = "start_clear"
  /\ thread_stop_event' = FALSE
  /\ Goto("start_thread")
  /\ UNCHANGED <<vcBack, streaming, stream_thread, threads, vcOnly>>

\* self.stream_thread = threading.Thread(target=self._stream_thread_func)
\* self.stream_thread.start()
VC_start_thread ==
  /\ IsVC /\ pc = "start_thread"
  /\ FreeThreads # {}
  /\ threads' = [threads EXCEPT ![NewThread] = Started("device", "open")]
  /\ stream_thread' = NewThread
  /\ Goto("start_set")
  /\ UNCHANGED <<vcBack, streaming, thread_stop_event, vcOnly>>

\* self.streaming = True; return True
VC_start_set ==
  /\ IsVC /\ pc = "start_set"
  /\ streaming' = TRUE
  /\ Return("True")
  /\ UNCHANGED <<vcBack, stream_thread, thread_stop_event, threads, vcOnly>>

\* stop_streaming(), lines 161-192
VC_stop_streaming ==
  /\ IsVC /\ Call("stop_streaming", "", "stop_check")
  /\ UNCHANGED <<vcBack, streaming, stream_thread, thread_stop_event, threads, vcOnly>>

\* if not self.streaming: return True
VC_stop_check ==
  /\ IsVC /\ pc = "stop_check"
  /\ IF ~streaming THEN Return("True") ELSE Goto("stop_set")
  /\ UNCHANGED <<vcBack, streaming, stream_thread, thread_stop_event, threads, vcOnly>>

\* self.thread_stop_event.set()
VC_stop_set ==
  /\ IsVC /\ pc = "stop_set"
  /\ thread_stop_event' = TRUE
  /\ Goto("stop_join")
  /\ UNCHANGED <<vcBack, streaming, stream_thread, threads, vcOnly>>

\* if self.stream_thread and self.stream_thread.is_alive():
\*     self.stream_thread.join(timeout=5)
VC_stop_join ==
  /\ IsVC /\ pc = "stop_join"
  /\ Joined(stream_thread) \/ TimedOut(stream_thread)
  /\ Goto("stop_queue")
  /\ UNCHANGED <<vcBack, streaming, stream_thread, thread_stop_event, threads, vcOnly>>

\* self.queue_lock: held by the control thread inside the with block of
\* stop_streaming (lines 180-181), the only place that takes it
queue_lock == IF IsVC /\ pc = "stop_queue" THEN "control" ELSE "free"

\* with self.queue_lock: self.frame_queue.clear()     (the list is never filled)
VC_stop_queue ==
  /\ IsVC /\ pc = "stop_queue"
  /\ Goto("stop_clear")
  /\ UNCHANGED <<vcBack, streaming, stream_thread, thread_stop_event, threads, vcOnly>>

\* self.streaming = False; return True
VC_stop_clear ==
  /\ IsVC /\ pc = "stop_clear"
  /\ streaming' = FALSE
  /\ Return("True")
  /\ UNCHANGED <<vcBack, stream_thread, thread_stop_event, threads, vcOnly>>

\* send_frame(frame), lines 203-224
VC_send_frame ==
  /\ IsVC /\ Call("send_frame", "", "frame_check")
  /\ UNCHANGED <<vcBack, streaming, stream_thread, thread_stop_event, threads, vcOnly>>

\* if not self.streaming: return False
VC_frame_check ==
  /\ IsVC /\ pc = "frame_check"
  /\ IF ~streaming THEN Return("False") ELSE Goto("frame_write")
  /\ UNCHANGED <<vcBack, streaming, stream_thread, thread_stop_event, threads, vcOnly>>

\* self.current_frame = frame.copy(); return True
\* (an object without copy() raises, and the except branch returns False)
VC_frame_write ==
  /\ IsVC /\ pc = "frame_write"
  /\ \/ \E n \in Frames :
          /\ current_frame' = UserFrame(n)
          /\ Return("True")
     \/ /\ Return("False")
        /\ UNCHANGED current_frame
  /\ UNCHANGED <<vcBack, streaming, stream_thread, thread_stop_event, threads,
                 camera, sent, video_thread, video_thread_stop>>

\* send_audio(audio_data), lines 226-237: a warning, return False
VC_send_audio ==
  /\ IsVC /\ Call("send_audio", "", "audio")
  /\ UNCHANGED <<vcBack, streaming, stream_thread, thread_stop_event, threads, vcOnly>>

VC_audio ==
  /\ IsVC /\ pc = "audio"
  /\ Return("False")
  /\ UNCHANGED <<vcBack, streaming, stream_thread, thread_stop_event, threads, vcOnly>>

\* send_video(video_path), lines 288-324
\*   exists: os.path.exists(video_path)
VC_send_video ==
  /\ IsVC
  /\ \E exists \in BOOLEAN :
       Call("send_video", IF exists THEN "exists" ELSE "missing", "video_exists")
  /\ UNCHANGED <<vcBack, streaming, stream_thread, thread_stop_event, threads, vcOnly>>

\* if not os.path.exists(video_path): return False
VC_video_exists ==
  /\ IsVC /\ pc = "video_exists"
  /\ IF ret.arg = "missing" THEN Return("False") ELSE Goto("video_check")
  /\ UNCHANGED <<vcBack, streaming, stream_thread, thread_stop_event, threads, vcOnly>>

\* if not self.streaming: <call self.start_streaming()>
VC_video_check ==
  /\ IsVC /\ pc = "video_check"
  /\ IF ~streaming THEN Invoke("start_check", "video_started") ELSE Goto("video_stop")
  /\ UNCHANGED <<vcBack, streaming, stream_thread, thread_stop_event, threads, vcOnly>>

\* if not self.start_streaming(): return False
VC_video_started ==
  /\ IsVC /\ pc = "video_started"
  /\ IF rv = "False" THEN Return("False") ELSE Goto("video_stop")
  /\ UNCHANGED <<vcBack, streaming, stream_thread, thread_stop_event, threads, vcOnly>>

\* if hasattr(self, 'video_thread') and self.video_thread
\*         and self.video_thread.is_alive():
\*     self.video_thread_stop.set()
VC_video_stop ==
  /\ IsVC /\ pc = "video_stop"
  /\ IF is_alive(video_thread)
       THEN video_thread_stop' = "set" /\ Goto("video_join")
       ELSE UNCHANGED video_thread_stop /\ Goto("video_new")
  /\ UNCHANGED <<vcBack, streaming, stream_thread, thread_stop_event, threads,
                 camera, current_frame, sent, video_thread>>

\* self.video_thread.join(timeout=2)
VC_video_join ==
  /\ IsVC /\ pc = "video_join"
  /\ Joined(video_thread) \/ TimedOut(video_thread)
  /\ Goto("video_new")
  /\ UNCHANGED <<vcBack, streaming, stream_thread, thread_stop_event, threads, vcOnly>>

\* self.video_thread_stop = threading.Event()
\* self.video_thread = threading.Thread(target=self._video_thread, ...)
\* self.video_thread.start(); return True
VC_video_new ==
  /\ IsVC /\ pc = "video_new"
  /\ FreeThreads # {}
  /\ video_thread_stop' = "clear"
  /\ threads' = [threads EXCEPT ![NewThread] = Started("playback", "open")]
  /\ video_thread' = NewThread
  /\ Return("True")
  /\ UNCHANGED <<vcBack, streaming, stream_thread, thread_stop_event,
                 camera, current_frame, sent>>

\* cleanup(), lines 342-355
VC_cleanup ==
  /\ IsVC /\ Call("cleanup", "", "cleanup_check")
  /\ UNCHANGED <<vcBack, streaming, stream_thread, thread_stop_event, threads, vcOnly>>

\* if hasattr(self, 'video_thread_stop') and self.video_thread:
\*     self.video_thread_stop.set()
VC_cleanup_check ==
  /\ IsVC /\ pc = "cleanup_check"
  /\ IF video_thread_stop # "unset" /\ video_thread # None
       THEN video_thread_stop' = "set" /\ Goto("cleanup_join")
       ELSE UNCHANGED video_thread_stop /\ Goto("cleanup_stop")
  /\ UNCHANGED <<vcBack, streaming, stream_thread, thread_stop_event, threads,
                 camera, current_frame, sent, video_thread>>

\*     if self.video_thread.is_alive(): self.video_thread.join(timeout=2)
VC_cleanup_join ==
  /\ IsVC /\ pc = "cleanup_join"
  /\ Joined(video_thread) \/ TimedOut(video_thread)
  /\ Goto("cleanup_stop")
  /\ UNCHANGED <<vcBack, streaming, stream_thread, thread_stop_event, threads, vcOnly>>

\* self.stop_streaming()
VC_cleanup_stop ==
  /\ IsVC /\ pc = "cleanup_stop"
  /\ Invoke("stop_check", "cleanup_done")
  /\ UNCHANGED <<vcBack, streaming, stream_thread, thread_stop_event, threads, vcOnly>>

VC_cleanup_done ==
  /\ IsVC /\ pc = "cleanup_done"
  /\ Return("None")
  /\ UNCHANGED <<vcBack, streaming, stream_thread, thread_stop_event, threads, vcOnly>>

\* threads that hold an open camera device
DeviceHolders == {t \in ThreadIds : threads[t].kind = "device" /\ threads[t].pc = "loop"}

\* _stream_thread_func(), lines 89-130, run by thread t
\* with pyvirtualcam.Camera(...) as cam: self.camera = cam
\* Creating the device raises without the library or when the device is
\* denied; while another thread of the object holds a device it depends on
\* the platform (a second loopback device, or an error).
\* except: self.streaming = False
VC_device_open(t) ==
  /\ threads[t].kind = "device" /\ threads[t].pc = "open"
  /\ \/ /\ avail = "ok"
        /\ threads' = [threads EXCEPT ![t].pc = "loop"]
        /\ camera' = t
        /\ UNCHANGED streaming
     \/ /\ avail # "ok" \/ DeviceHolders # {}
        /\ threads' = [threads EXCEPT ![t].pc = "dead"]
        /\ streaming' = FALSE
        /\ UNCHANGED camera
  /\ UNCHANGED <<vcBack, ctl, stream_thread, thread_stop_event,
                 current_frame, sent, video_thread, video_thread_stop>>

\* a device loop that goes on sending the frame it sent first
VC_device_loop_stale(t) ==
  /\ threads[t].kind = "device" /\ threads[t].pc = "loop"
  /\ IF thread_stop_event
       THEN /\ camera' = None
            /\ threads' = [threads EXCEPT ![t].pc = "dead"]
            /\ UNCHANGED <<sent, streaming>>
       ELSE IF current_frame = NoFrame
         THEN /\ streaming' = FALSE
              /\ threads' = [threads EXCEPT ![t].pc = "dead"]
              /\ UNCHANGED <<sent, camera>>
         ELSE /\ sent' = IF sent = NoFrame THEN current_frame ELSE sent
              /\ UNCHANGED <<threads, camera, streaming>>
  /\ UNCHANGED <<vcBack, ctl, stream_thread, thread_stop_event,
                 current_frame, video_thread, video_thread_stop>>

\* while not self.thread_stop_event.is_set():
\*     frame = self.current_frame.copy(); ...; cam.send(frame)
\*     cam.sleep_until_next_frame()
\* self.camera = None
\* current_frame is None before initialize: copy() raises, the device is
\* closed by the with statement, except: self.streaming = False
VC_device_loop(t) ==
  /\ threads[t].kind = "device" /\ threads[t].pc = "loop"
  /\ IF thread_stop_event
       THEN /\ camera' = None
            /\ threads' = [threads EXCEPT ![t].pc = "dead"]
            /\ UNCHANGED <<sent, streaming>>
       ELSE IF current_frame = NoFrame
         THEN /\ streaming' = FALSE
              /\ threads' = [threads EXCEPT ![t].pc = "dead"]
              /\ UNCHANGED <<sent, camera>>
         ELSE /\ sent' = current_frame
              /\ UNCHANGED <<threads, camera, streaming>>
  /\ UNCHANGED <<vcBack, ctl, stream_thread, thread_stop_event,
                 current_frame, video_thread, video_thread_stop>>

\* _video_thread(video_path), lines 239-286, run by thread t
\* cap = cv2.VideoCapture(video_path)
\* if not cap.isOpened(): self.streaming = False; return     (then finally)
VC_playback_open(t) ==
  /\ threads[t].kind = "playback" /\ threads[t].pc = "open"
  /\ \E opened \in BOOLEAN :
       IF opened
         THEN threads' = [threads EXCEPT ![t].pc = "loop"] /\ UNCHANGED streaming
         ELSE threads' = [threads EXCEPT ![t].pc = "finally"] /\ streaming' = FALSE
  /\ UNCHANGED <<vcBack, ctl, stream_thread, thread_stop_event, vcOnly>>

\* while not self.thread_stop_event.is_set():
\*     ret, frame = cap.read(); ...; self.current_frame = frame; time.sleep(...)
\* cap.release()
VC_playback_loop(t) ==
  /\ threads[t].kind = "playback" /\ threads[t].pc = "loop"
  /\ IF thread_stop_event
       THEN threads' = [threads EXCEPT ![t].pc = "finally"] /\ UNCHANGED current_frame
       ELSE current_frame' = VideoFrame(t) /\ UNCHANGED threads
  /\ UNCHANGED <<vcBack, ctl, streaming, stream_thread, thread_stop_event,
                 camera, sent, video_thread, video_thread_stop>>

\* finally: self.streaming = False
VC_playback_finally(t) ==
  /\ threads[t].kind = "playback" /\ threads[t].pc = "finally"
  /\ streaming' = FALSE
  /\ threads' = [threads EXCEPT ![t].pc = "dead"]
  /\ UNCHANGED <<vcBack, ctl, stream_thread, thread_stop_event, vcOnly>>

\* VirtualCamera.__init__, lines 28-40
InitVCam ==
  /\ inst = "VirtualCamera"
  /\ avail \in {"ok", "missing", "denied"}
  /\ platform = "virtual_camera"
  /\ config = S720p
  /\ resolution = Default720
  /\ InitCommon

NextVCam ==
  \/ VC_initialize \/ VC_init
  \/ VC_start_streaming \/ VC_start_check \/ VC_start_clear \/ VC_start_thread
  \/ VC_start_set
  \/ VC_stop_streaming \/ VC_stop_check \/ VC_stop_set \/ VC_stop_join
  \/ VC_stop_queue \/ VC_stop_clear
  \/ VC_send_frame \/ VC_frame_check \/ VC_frame_write
  \/ VC_send_audio \/ VC_audio
  \/ VC_send_video \/ VC_video_exists \/ VC_video_check \/ VC_video_started \/ VC_video_stop
  \/ VC_video_join \/ VC_video_new
  \/ VC_cleanup \/ VC_cleanup_check \/ VC_cleanup_join \/ VC_cleanup_stop
  \/ VC_cleanup_done
  \/ \E t \in ThreadIds :
        \/ VC_device_open(t) \/ VC_device_loop(t)
        \/ VC_playback_open(t) \/ VC_playback_loop(t) \/ VC_playback_finally(t)

SpecVCam == InitVCam /\ [][NextVCam]_vars

\* a started thread keeps being scheduled: every step of _stream_thread_func
\* and of _video_thread that can be taken is eventually taken
VC_ThreadStep(t) ==
  \/ VC_device_open(t) \/ VC_device_loop(t)
  \/ VC_playback_open(t) \/ VC_playback_loop(t) \/ VC_playback_finally(t)

SpecVCamFair == SpecVCam /\ \A t \in ThreadIds : WF_vars(VC_ThreadStep(t))

\* a StreamingInterface object of either class
InitBackends == InitRTMP \/ InitVCam
NextBackends == NextRTMP \/ NextVCam
SpecBackends == InitBackends /\ [][NextBackends]_vars

\* -------------------------------------------------------------- StreamManager
\* what no step of a StreamManager touches (width and height: __init__ apart)
smBack == <<inst, avail, cbOnly, config, resolution, streaming, ffmpeg_process,
            thread_stop_event, vcOnly>>

\* start(), lines 75-86
SM_start ==
  /\ IsSM /\ Call("start", "", "start_check")
  /\ UNCHANGED <<smBack, stream_thread, procs, threads, smOnly>>

\* if self.is_streaming: return
\* self.is_streaming = True
SM_start_check ==
  /\ IsSM /\ pc = "start_check"
  /\ IF is_streaming
       THEN Return("None") /\ UNCHANGED is_streaming
       ELSE Goto("start_thread") /\ is_streaming' = TRUE
  /\ UNCHANGED <<smBack, stream_thread, procs, threads,
                 platform, stream_process, content_queue, pushed, published>>

\* self.stream_thread = threading.Thread(target=self._stream_worker)
\* self.stream_thread.start()
SM_start_thread ==
  /\ IsSM /\ pc = "start_thread"
  /\ FreeThreads # {}
  /\ threads' = [threads EXCEPT ![NewThread] = Started("worker", "check")]
  /\ stream_thread' = NewThread
  /\ Return("None")
  /\ UNCHANGED <<smBack, procs, smOnly>>

\* stop(), lines 88-105
SM_stop ==
  /\ IsSM /\ Call("stop", "", "stop_check")
  /\ UNCHANGED <<smBack, stream_thread, procs, threads, smOnly>>

\* if not self.is_streaming: return
\* self.is_streaming = False
SM_stop_check ==
  /\ IsSM /\ pc = "stop_check"
  /\ IF ~is_streaming
       THEN Return("None") /\ UNCHANGED is_streaming
       ELSE Goto("stop_join") /\ is_streaming' = FALSE
  /\ UNCHANGED <<smBack, stream_thread, procs, threads,
                 platform, stream_process, content_queue, pushed, published>>

\* if self.stream_thread: self.stream_thread.join(timeout=5)
SM_stop_join ==
  /\ IsSM /\ pc = "stop_join"
  /\ Joined(stream_thread) \/ TimedOut(stream_thread)
  /\ Goto("stop_terminate")
  /\ UNCHANGED <<smBack, stream_thread, procs, threads, smOnly>>

\* if self.stream_process: self.stream_process.terminate()
SM_stop_terminate ==
  /\ IsSM /\ pc = "stop_terminate"
  /\ IF stream_process # None
       THEN /\ procs' = [procs EXCEPT ![stream_process].signalled = TRUE]
            /\ Goto("stop_none")
       ELSE /\ Return("None")
            /\ UNCHANGED procs
  /\ UNCHANGED <<smBack, stream_thread, threads, smOnly>>

\*     self.stream_process = None
SM_stop_none ==
  /\ IsSM /\ pc = "stop_none"
  /\ stream_process' = None
  /\ Return("None")
  /\ UNCHANGED <<smBack, stream_thread, procs, threads,
                 platform, is_streaming, content_queue, pushed, published>>

\* push_content(video_file, audio_file=None), lines 107-133
\*   arg: "missing": Path(video_file).exists() is false;
\*        "video": no audio_file; "video,missing audio"; "video,audio"
SM_push_content ==
  /\ IsSM
  /\ \E arg \in {"missing", "video", "video,missing audio", "video,audio"} :
       Call("push_content", arg, "push_check")
  /\ UNCHANGED <<smBack, stream_thread, procs, threads, smOnly>>

\* push_content without the test of lines 117-119
SM_push_check_unchecked ==
  /\ IsSM /\ pc = "push_check"
  /\ pushed < MaxItems
  /\ pushed' = pushed + 1
  /\ content_queue' = Append(content_queue,
         [video |-> pushed + 1,
          audio |-> IF ret.arg = "video,audio" THEN "file" ELSE "None"])
  /\ Return("True")
  /\ UNCHANGED <<smBack, stream_thread, procs, threads,
                 platform, is_streaming, stream_process, published>>

\* if not Path(video_file).exists(): return False
\* if audio_file and not Path(audio_file).exists(): audio_file = None
\* self.content_queue.put((video_file, audio_file)); return True
\* An accepted item is (video, audio); the n-th accepted video is n.
SM_push_check ==
  /\ IsSM /\ pc = "push_check"
  /\ IF ret.arg = "missing"
       THEN /\ Return("False")
            /\ UNCHANGED <<content_queue, pushed>>
       ELSE /\ pushed < MaxItems
            /\ pushed' = pushed + 1
            /\ content_queue' = Append(content_queue,
                   [video |-> pushed + 1,
                    audio |-> IF ret.arg = "video,audio" THEN "file" ELSE "None"])
            /\ Return("True")
  /\ UNCHANGED <<smBack, stream_thread, procs, threads,
                 platform, is_streaming, stream_process, published>>

\* _stream_worker(), lines 135-154, run by thread t
\* while self.is_streaming:
SM_worker_check(t) ==
  /\ threads[t].kind = "worker" /\ threads[t].pc = "check"
  /\ threads' = [threads EXCEPT ![t].pc = IF is_streaming THEN "get" ELSE "dead"]
  /\ UNCHANGED <<smBack, ctl, stream_thread, procs, smOnly>>

\* a get that reads the head of the queue and leaves it there
SM_worker_get_peek(t) ==
  /\ threads[t].kind = "worker" /\ threads[t].pc = "get"
  /\ IF content_queue # <<>>
       THEN threads' = [threads EXCEPT ![t] =
                  [@ EXCEPT !.pc = "publish", !.item = Head(content_queue).video]]
       ELSE threads' = [threads EXCEPT ![t].pc = "check"]
  /\ UNCHANGED <<smBack, ctl, stream_thread, procs, smOnly>>

\* video_file, audio_file = self.content_queue.get(timeout=1)
\* except queue.Empty: time.sleep(0.1)
SM_worker_get(t) ==
  /\ threads[t].kind = "worker" /\ threads[t].pc = "get"
  /\ IF content_queue # <<>>
       THEN /\ threads' = [threads EXCEPT ![t] =
                  [@ EXCEPT !.pc = "publish", !.item = Head(content_queue).video]]
            /\ content_queue' = Tail(content_queue)
       ELSE /\ threads' = [threads EXCEPT ![t].pc = "check"]
            /\ UNCHANGED content_queue
  /\ UNCHANGED <<smBack, ctl, stream_thread, procs,
                 platform, is_streaming, stream_process, pushed, published>>

\* self._stream_content(video_file, audio_file), lines 156-172: by platform
\* ("rtmp" and "virtual_camera"; any other tag only logs a warning)
SM_worker_publish(t) ==
  /\ threads[t].kind = "worker" /\ threads[t].pc = "publish"
  /\ published' = Append(published, threads[t].item)
  /\ threads' = [threads EXCEPT ![t].pc =
                    IF platform = "rtmp" THEN "rtmp_terminate" ELSE "camera_open"]
  /\ UNCHANGED <<smBack, ctl, stream_thread, procs,
                 platform, is_streaming, stream_process, content_queue, pushed>>

\* what the worker does after _stream_content returned or caught an exception:
\* self.content_queue.task_done(), then the loop test
Published(t) == [threads EXCEPT ![t] = [@ EXCEPT !.pc = "check", !.proc = None, !.item = None]]

\* _stream_rtmp, lines 208-210
\* if self.stream_process: self.stream_process.terminate()
SM_rtmp_terminate(t) ==
  /\ threads[t].kind = "worker" /\ threads[t].pc = "rtmp_terminate"
  /\ procs' = IF stream_process # None
                THEN [procs EXCEPT ![stream_process].signalled = TRUE]
                ELSE procs
  /\ threads' = [threads EXCEPT ![t].pc = "rtmp_popen"]
  /\ UNCHANGED <<smBack, ctl, stream_thread, smOnly>>

\* Popen whose exception is caught neither by _stream_content (lines 171-172)
\* nor by _stream_worker (lines 150-152): the worker thread ends
SM_rtmp_popen_uncaught(t) ==
  /\ threads[t].kind = "worker" /\ threads[t].pc = "rtmp_popen"
  /\ IF avail = "ok"
       THEN /\ FreeProcs # {}
            /\ procs' = [procs EXCEPT ![NewProc] = Spawned("item")]
            /\ stream_process' = NewProc
            /\ threads' = [threads EXCEPT ![t].pc = "rtmp_stderr"]
       ELSE /\ threads' = [threads EXCEPT ![t].pc = "dead"]
            /\ UNCHANGED <<procs, stream_process>>
  /\ UNCHANGED <<smBack, ctl, stream_thread,
                 platform, is_streaming, content_queue, pushed, published>>

\* self.stream_process = subprocess.Popen(cmd, ...), lines 213-218
\* (FileNotFoundError without ffmpeg, caught by _stream_content)
SM_rtmp_popen(t) ==
  /\ threads[t].kind = "worker" /\ threads[t].pc = "rtmp_popen"
  /\ IF avail = "ok"
       THEN /\ FreeProcs # {}
            /\ procs' = [procs EXCEPT ![NewProc] = Spawned("item")]
            /\ stream_process' = NewProc
            /\ threads' = [threads EXCEPT ![t].pc = "rtmp_stderr"]
       ELSE /\ threads' = Published(t)
            /\ UNCHANGED <<procs, stream_process>>
  /\ UNCHANGED <<smBack, ctl, stream_thread,
                 platform, is_streaming, content_queue, pushed, published>>

\* for line in self.stream_process.stderr:     (line 221: the iterator is taken
\* from the handle the field holds now; None raises AttributeError)
SM_rtmp_stderr(t) ==
  /\ threads[t].kind = "worker" /\ threads[t].pc = "rtmp_stderr"
  /\ threads' = IF stream_process = None
                  THEN Published(t)
                  ELSE [threads EXCEPT ![t] =
                          [@ EXCEPT !.pc = "rtmp_lines", !.proc = stream_process]]
  /\ UNCHANGED <<smBack, ctl, stream_thread, procs, smOnly>>

\*     logger.debug(...)
\*     if not self.is_streaming: break
\* the loop ends when the process closes its stderr, or after a line that is
\* read with the flag down
SM_rtmp_lines(t) ==
  /\ threads[t].kind = "worker" /\ threads[t].pc = "rtmp_lines"
  /\ \/ ~procs[threads[t].proc].alive
     \/ procs[threads[t].proc].alive /\ ~is_streaming
  /\ threads' = [threads EXCEPT ![t].pc = "rtmp_wait"]
  /\ UNCHANGED <<smBack, ctl, stream_thread, procs, smOnly>>

\* self.stream_process.wait()     (line 227, on the handle the field holds now)
SM_rtmp_wait(t) ==
  /\ threads[t].kind = "worker" /\ threads[t].pc = "rtmp_wait"
  /\ threads' = IF stream_process = None
                  THEN Published(t)
                  ELSE [threads EXCEPT ![t] =
                          [@ EXCEPT !.pc = "rtmp_waiting", !.proc = stream_process]]
  /\ UNCHANGED <<smBack, ctl, stream_thread, procs, smOnly>>

\* wait() returns when that process has exited; line 228 logs the return code
SM_rtmp_waiting(t) ==
  /\ threads[t].kind = "worker" /\ threads[t].pc = "rtmp_waiting"
  /\ ~procs[threads[t].proc].alive
  /\ threads' = Published(t)
  /\ UNCHANGED <<smBack, ctl, stream_thread, procs, smOnly>>

\* _stream_virtual_camera, lines 237-247: the imports and the camera
\* (ImportError and any other exception are logged inside the function)
SM_camera_open(t) ==
  /\ threads[t].kind = "worker" /\ threads[t].pc = "camera_open"
  /\ threads' = IF avail = "ok"
                  THEN [threads EXCEPT ![t].pc = "camera_frames"]
                  ELSE Published(t)
  /\ UNCHANGED <<smBack, ctl, stream_thread, procs, smOnly>>

\* for frame in video.iter_frames(fps=fps):
\*     if not self.is_streaming: break
\*     ...; cam.send(frame); cam.sleep_until_next_frame()
\* the loop ends with the last frame of the file, or at a frame with the flag down
SM_camera_frames(t) ==
  /\ threads[t].kind = "worker" /\ threads[t].pc = "camera_frames"
  /\ \/ is_streaming
     \/ ~is_streaming
  /\ threads' = Published(t)
  /\ UNCHANGED <<smBack, ctl, stream_thread, procs, smOnly>>

\* an encoder of the manager exits: end of the file, SIGTERM, an error
SM_ProcExit(p) ==
  /\ IsSM /\ procs[p].alive
  /\ procs' = [procs EXCEPT ![p].alive = FALSE]
  /\ UNCHANGED <<smBack, ctl, stream_thread, threads, smOnly>>

\* StreamManager.__init__, lines 21-44
InitManager ==
  /\ inst = "StreamManager"
  /\ avail \in {"ok", "missing"}
  /\ platform \in {"rtmp", "virtual_camera"}
  /\ config = S720p
  /\ resolution = parse_resolution(config)
  /\ InitCommon

NextManager ==
  \/ SM_start \/ SM_start_check \/ SM_start_thread
  \/ SM_stop \/ SM_stop_check \/ SM_stop_join \/ SM_stop_terminate \/ SM_stop_none
  \/ SM_push_content \/ SM_push_check
  \/ \E t \in ThreadIds :
        \/ SM_worker_check(t) \/ SM_worker_get(t) \/ SM_worker_publish(t)
        \/ SM_rtmp_terminate(t) \/ SM_rtmp_popen(t) \/ SM_rtmp_stderr(t)
        \/ SM_rtmp_lines(t) \/ SM_rtmp_wait(t) \/ SM_rtmp_waiting(t)
        \/ SM_camera_open(t) \/ SM_camera_frames(t)
  \/ \E p \in ProcIds : SM_ProcExit(p)

SpecManager == InitManager /\ [][NextManager]_vars

\* The worker threads are daemon threads the interpreter keeps scheduling, and
\* an encoder that plays a file ends with the file (or on SIGTERM): every
\* worker step that can be taken is taken, and every encoder exits.  Nothing
\* obliges the user of the manager to make a further call.
WorkerStep(t) ==
  \/ SM_worker_check(t) \/ SM_worker_get(t) \/ SM_worker_publish(t)
  \/ SM_rtmp_terminate(t) \/ SM_rtmp_popen(t) \/ SM_rtmp_stderr(t)
  \/ SM_rtmp_lines(t) \/ SM_rtmp_wait(t) \/ SM_rtmp_waiting(t)
  \/ SM_camera_open(t) \/ SM_camera_frames(t)

FairManager ==
  /\ \A t \in ThreadIds : WF_vars(WorkerStep(t))
  /\ \A p \in ProcIds : WF_vars(SM_ProcExit(p))

SpecManagerFair == SpecManager /\ FairManager

\* ------------------------------------------------- the resolution of a config
\* __init__(config), lines 21-44:
\* self.width, self.height = self._parse_resolution(self.resolution)
SM_init ==
  /\ IsSM /\ pc = "new"
  /\ resolution' = parse_resolution(config)
  /\ pc' = "idle"
  /\ UNCHANGED <<inst, avail, cbOnly, config, stack, ret, rv, streaming, ffmpeg_process,
                 stream_thread, thread_stop_event, procs, threads, vcOnly, smOnly>>

\* an object of one of the three classes and a config whose resolution is any
\* of the strings; a StreamManager is taken at the entry of its constructor
InitResolution ==
  /\ inst \in {"RTMPStreamer", "VirtualCamera", "StreamManager"}
  /\ avail \in {"ok", "missing"}
  /\ platform = (IF inst = "VirtualCamera" THEN "virtual_camera" ELSE "rtmp")
  /\ config \in StringsUpTo(MaxLen)
                \cup {S1080p, S720p, S480p, S360p,
                      <<"1", "2", "8", "0", "x", "7", "2", "0">>,
                      <<"1", "9", "2", "0", "x", "1", "0", "8", "0">>}
  /\ IF inst = "StreamManager"
       THEN pc = "new" /\ resolution = NoResolution
       ELSE pc = "idle" /\ resolution = Default720
  /\ max_history = 10
  /\ InitFields

NextResolution ==
  \/ SM_init
  \/ RT_initialize \/ RT_init
  \/ VC_initialize \/ VC_init

SpecResolution == InitResolution /\ [][NextResolution]_vars

\* ------------------------------------------------------ the ChatbotManager
\* Python's s[start:] : a negative start counts from the end (and stops at the
\* first element), a start of zero or more counts from the front
slice(s, start) ==
  LET len == Len(s)
      from == IF start < 0
                THEN (IF len + start < 0 THEN 0 ELSE len + start)
                ELSE (IF start > len THEN len ELSE start)
  IN  SubSeq(s, from + 1, len)

\* add_message(role, content), lines 144-156; time.time() is the number of
\* the call
CB_add_message ==
  /\ inst = "ChatbotManager" /\ pc = "idle"
  /\ Len(added) < MaxMessages
  /\ \E role \in {"user", "assistant", "system"}, content \in {"hello", "bye"} :
        LET message == [role |-> role, content |-> content,
                        timestamp |-> Len(added) + 1]
            appended == Append(conversation_history, message)
        IN  /\ added' = Append(added, message)
            /\ conversation_history' =
                  IF Len(appended) > max_history
                    THEN slice(appended, 0 - max_history)
                    ELSE appended
  /\ ret' = [op |-> "add_message", arg |-> "", val |-> "None"]
  /\ UNCHANGED <<inst, avail, pc, stack, rv, streaming, ffmpeg_process,
                 stream_thread, thread_stop_event, procs, threads, vcOnly,
                 smOnly, config, resolution, max_history>>

\* ChatbotManager.__init__, lines 19-33, with any max_history in the config
InitChatbot ==
  /\ inst = "ChatbotManager"
  /\ avail = "ok"
  /\ platform = "rtmp"
  /\ config = S720p
  /\ resolution = Default720
  /\ pc = "idle"
  /\ max_history \in 0..MaxHistory
  /\ InitFields

NextChatbot == CB_add_message

SpecChatbot == InitChatbot /\ [][NextChatbot]_vars

\* ===================================================================== claims

\* C1: the worker hands the accepted items to _stream_content in the order in
\* which push_content accepted them: the n-th accepted item is item n, so the
\* published items are in increasing order.
C1_PublishedInAcceptedOrder ==
  \A i, j \in 1..Len(published) : i < j => published[i] < published[j]

\* C2: push_content with a video path that does not exist returns False and
\* leaves the content queue (and the count of accepted items) as it was,
\* whatever the manager and its worker are doing.
C2_MissingVideoRejected ==
  [][(IsSM /\ pc = "push_check" /\ ret.arg = "missing" /\ pc' # pc)
       => /\ pc' = "idle"
          /\ ret'.val = "False"
          /\ content_queue' = content_queue
          /\ pushed' = pushed]_vars

\* push_content("missing") has returned False while the manager is started,
\* items wait in the queue and a worker is in the middle of an item
C2_Witness ==
  /\ IsSM /\ pc = "idle"
  /\ ret = [op |-> "push_content", arg |-> "missing", val |-> "False"]
  /\ is_streaming
  /\ content_queue # <<>>
  /\ \E t \in ThreadIds : WorkerBlocked(t)

\* C3: at most one external encoder process (raw-frame or one-shot) of an
\* RTMPStreamer is alive at a time.
C3_AtMostOneEncoderAlive ==
  IsRT => Cardinality(AliveProcs) <= 1

\* C4: at most one device thread of a VirtualCamera holds an open camera
\* device at a time.
C4_AtMostOneDeviceHolder ==
  IsVC => Cardinality(DeviceHolders) <= 1

\* playback threads that go on writing self.current_frame
PlaybackWriters == {t \in ThreadIds : PlaybackRuns(t)}

\* C5: a second send_video supersedes the first: two playback threads never
\* both go on updating the current-frame buffer.
C5_OnePlaybackWriter ==
  IsVC => Cardinality(PlaybackWriters) <= 1

\* C6: the step of start_streaming() that finds the streaming flag up returns
\* True and spawns nothing: no process and no thread is created, and the
\* encoder handle and the device thread handle are the ones of before.
C6_StartWhileStreamingIsNoOp ==
  [][((IsRT \/ IsVC) /\ pc = "start_check" /\ streaming /\ pc' # pc)
       => /\ rv' = "True"
          /\ (stack = <<>> => pc' = "idle" /\ ret'.val = "True")
          /\ procs' = procs
          /\ threads' = threads
          /\ ffmpeg_process' = ffmpeg_process
          /\ stream_thread' = stream_thread
          /\ streaming']_vars

\* a start_streaming() call of the user finds the flag up with the one handle
\* an earlier start_streaming() created: a running raw encoder, or a device
\* thread that holds the camera
C6_Witness ==
  /\ pc = "start_check" /\ stack = <<>> /\ streaming
  /\ ret.op = "start_streaming"
  /\ \/ IsRT /\ Running(ffmpeg_process) /\ AliveProcs = {ffmpeg_process}
     \/ IsVC /\ DeviceHolders = {stream_thread}

\* C7: the step of stop_streaming() that finds the streaming flag down returns
\* True and leaves every field of the streamer, its threads and its processes
\* as they were.
C7_StopWhileStoppedIsNoOp ==
  [][((IsRT \/ IsVC) /\ pc = "stop_check" /\ ~streaming /\ pc' # pc)
       => /\ rv' = "True"
          /\ (stack = <<>> => pc' = "idle" /\ ret'.val = "True")
          /\ UNCHANGED <<streaming, ffmpeg_process, stream_thread,
                         thread_stop_event, procs, threads, vcOnly>>]_vars

\* stop_streaming() has returned True through its early return (the stop event
\* was not set on the way), on a streamer that has started a thread before
C7_Witness ==
  /\ (IsRT \/ IsVC) /\ pc = "idle"
  /\ ret.op = "stop_streaming" /\ ret.val = "True"
  /\ ~streaming /\ ~thread_stop_event
  /\ \E t \in ThreadIds : threads[t].kind # "none"

\* C8: send_audio returns False in every state and changes nothing: flag,
\* handles, stop event, processes, threads and frames are as before the call.
C8_SendAudioRejected ==
  [][((IsRT \/ IsVC) /\ pc = "audio" /\ pc' # pc)
       => /\ pc' = "idle"
          /\ ret'.val = "False"
          /\ UNCHANGED <<streaming, ffmpeg_process, stream_thread,
                         thread_stop_event, procs, threads, vcOnly>>]_vars

\* send_audio has returned False during a send_video playback
C8_Witness ==
  /\ (IsRT \/ IsVC) /\ pc = "idle"
  /\ ret.op = "send_audio" /\ ret.val = "False"
  /\ streaming
  /\ \E t \in ThreadIds :
       \/ threads[t].kind = "video" /\ threads[t].pc = "poll" /\ Running(threads[t].proc)
       \/ PlaybackRuns(t)

\* C9: when send_frame is about to return False after a failed write and its
\* restart cycle, the streamer is streaming with a newly spawned raw encoder
\* attached (one whose input has never been closed; stop_streaming closes the
\* input of the handle it is to release).
C9_RestartedAfterWriteFailure ==
  (IsRT /\ pc = "frame_fail")
    => /\ streaming
       /\ ffmpeg_process # None
       /\ procs[ffmpeg_process].kind = "raw"
       /\ ~procs[ffmpeg_process].stdin_closed

\* no send_video thread has ever been started
NoVideoThread == \A t \in ThreadIds : threads[t].kind = "none"

\* C10: on an RTMPStreamer used frame by frame (start_streaming, send_frame,
\* stop_streaming), a stop_streaming() that has returned leaves the streaming
\* flag down and the process handle released.
C10_StoppedAndReleased ==
  (IsRT /\ NoVideoThread /\ pc = "idle" /\ ret.op = "stop_streaming")
    => (~streaming /\ ffmpeg_process = None)


\* the items that have been handed to _stream_content
PublishedItems == {published[i] : i \in 1..Len(published)}
\* the items waiting in the content queue
QueuedItems == {content_queue[i].video : i \in 1..Len(content_queue)}

\* worker t leaves the publish call through an exception: Popen raising, the
\* handle gone from self.stream_process, the camera not created
FailedPublish(t) ==
  /\ threads[t].kind = "worker"
  /\ threads[t].pc \in {"rtmp_popen", "rtmp_stderr", "rtmp_wait", "camera_open"}
  /\ threads'[t].pc = "check"

\* C11: a publish call that fails inside the worker is absorbed: the worker
\* goes back to its loop test with the queue and the published items as they
\* were (no retry, nothing put back); a worker thread ends only at its loop test
\* with is_streaming down; and no item that was handed to the publish call is
\* ever in the queue again.
C11_PublishFailureAbsorbed ==
  [][/\ PublishedItems \cap QueuedItems = {}
     /\ \A t \in ThreadIds :
          /\ FailedPublish(t)
               => /\ content_queue' = content_queue
                  /\ published' = published
                  /\ threads'[t].item = None
          /\ (threads[t].kind = "worker" /\ threads[t].pc # "dead"
                /\ threads'[t].pc = "dead")
               => (threads[t].pc = "check" /\ ~is_streaming)]_vars

\* without ffmpeg every publish call fails; one worker, still alive, has
\* handed two items to the publish call one after the other
C11_Witness ==
  /\ IsSM /\ avail = "missing" /\ platform = "rtmp"
  /\ published = <<1, 2>>
  /\ threads[1].kind = "worker" /\ threads[1].pc = "check"
  /\ threads[2].kind = "none"
  /\ is_streaming


\* C12: once stop() has returned (and until the next start()) no encoder of
\* the manager is attached, and none is running that has not been sent the
\* terminate signal.
C12_StoppedLeavesNoEncoder ==
  (IsSM /\ pc = "idle" /\ ret.op = "stop")
    => /\ stream_process = None
       /\ \A p \in ProcIds : procs[p].alive => procs[p].signalled

\* worker threads that are inside a publish call
Publishing == {t \in ThreadIds : /\ threads[t].kind = "worker"
                                 /\ threads[t].pc \notin {"check", "get", "dead"}}

\* C13: at most one worker thread of a StreamManager is alive, and at most one
\* item is being published, at any time.
C13_SingleWorker ==
  IsSM => /\ Cardinality(AliveThreads("worker")) <= 1
          /\ Cardinality(Publishing) <= 1


\* the manager is started and a worker thread is alive
WorkerRunning == is_streaming /\ AliveThreads("worker") # {}

\* C14: every accepted item is handed to the publish call exactly once: the
\* published items are accepted items and none occurs twice; and if from some
\* moment on the manager stays started with a worker alive (every publish call
\* returning), each accepted item is eventually handed over.
C14_PublishedExactlyOnce ==
  /\ [](/\ \A i \in 1..Len(published) : published[i] \in 1..pushed
        /\ \A i, j \in 1..Len(published) : i # j => published[i] # published[j])
  /\ \A n \in 1..MaxItems :
       (<>[]WorkerRunning) => ((pushed >= n) ~> (n \in PublishedItems))

\* all the items the model accepts have been handed over, once each
C14_Witness ==
  /\ IsSM /\ pushed = 3 /\ content_queue = <<>>
  /\ Len(published) = 3 /\ PublishedItems = {1, 2, 3}
  /\ is_streaming


\* C15: send_video with a path that does not exist returns False on both
\* backends, and the call spawns no process, starts no thread and leaves the
\* flag, the handles, the stop events and the frames as they were.
C15_MissingVideoRefused ==
  [][((IsRT \/ IsVC) /\ ret.op = "send_video" /\ ret.arg = "missing"
        /\ pc # "idle" /\ pc' # pc)
       => /\ pc = "video_exists" /\ pc' = "idle"
          /\ ret'.val = "False"
          /\ UNCHANGED <<streaming, ffmpeg_process, stream_thread,
                         thread_stop_event, procs, threads, vcOnly>>]_vars

\* send_video(missing path) has returned False while a stream is up: an
\* encoder is running, or a device thread holds the camera
C15_Witness ==
  /\ (IsRT \/ IsVC) /\ pc = "idle"
  /\ ret.op = "send_video" /\ ret.arg = "missing" /\ ret.val = "False"
  /\ streaming
  /\ \/ Running(ffmpeg_process)
     \/ DeviceHolders # {}

\* C16: after send_video has returned True on the RTMP streamer, and while no
\* other call has been made, is_streaming() is true for as long as the
\* one-shot process of that call is running; a thread of an earlier
\* send_video that finishes late does not clear the flag.
C16_StreamingWhileOneShotRuns ==
  (/\ IsRT /\ pc = "idle"
   /\ ret.op = "send_video" /\ ret.val = "True"
   /\ stream_thread # None
   /\ threads[stream_thread].pc = "poll"
   /\ Running(threads[stream_thread].proc))
    => streaming

\* the last call was a send_video that returned True, nothing has been called
\* since, and the one-shot process of that call has exited, or could not be
\* spawned
OneShotOver ==
  /\ IsRT /\ pc = "idle"
  /\ ret.op = "send_video" /\ ret.val = "True"
  /\ stream_thread # None
  /\ threads[stream_thread].kind = "video"
  /\ IF threads[stream_thread].proc # None
       THEN ~procs[threads[stream_thread].proc].alive
       ELSE threads[stream_thread].pc \in {"finally", "dead"}

\* C17: once the one-shot process started by send_video has exited, or has
\* failed to spawn, and no further call is made, is_streaming() eventually
\* becomes false.
C17_FlagFallsAfterOneShot ==
  OneShotOver ~> (~streaming \/ pc # "idle")

\* the process of the last send_video has ended by itself, its thread has
\* ended, and the flag is down
C17_Witness ==
  /\ OneShotOver
  /\ threads[stream_thread].pc = "dead"
  /\ threads[stream_thread].proc # None
  /\ ~procs[threads[stream_thread].proc].signalled
  /\ ~streaming

\* C18: when the camera device cannot be created, every start_streaming() of
\* the virtual camera returns False, and is_streaming() is false once the call
\* has returned.
C18_DeniedDeviceReported ==
  (/\ IsVC /\ avail = "denied"
   /\ pc = "idle" /\ ret.op = "start_streaming")
    => (ret.val = "False" /\ ~streaming)

\* the calls the claim names
BooleanCalls == {"start_streaming", "send_frame", "send_video", "stop_streaming"}

\* C19 as stated: with the backend unavailable, every start_streaming() of
\* the RTMP streamer returns False and leaves the flag down and no handle.
C19_StartAlwaysFails ==
  (/\ IsRT /\ avail = "missing"
   /\ pc = "idle" /\ ret.op = "start_streaming")
    => (ret.val = "False" /\ ~streaming /\ ffmpeg_process = None)

\* C19: with the backend unavailable, initialize returns False; each of
\* start_streaming, send_frame, send_video and stop_streaming returns True or
\* False; and a start_streaming() of the RTMP streamer that finds
\* is_streaming() false returns False, with the flag still down and no
\* process handle attached.
C19_BackendUnavailable ==
  /\ [][((IsRT \/ IsVC) /\ avail = "missing" /\ pc = "init" /\ pc' # pc)
          => (pc' = "idle" /\ ret'.val = "False")]_vars
  /\ []((/\ IsRT \/ IsVC
         /\ avail = "missing"
         /\ pc = "idle" /\ ret.op \in BooleanCalls)
          => ret.val \in {"True", "False"})
  /\ []((IsRT /\ avail = "missing") => ffmpeg_process = None)
  /\ [][(/\ IsRT /\ avail = "missing"
         /\ ret.op = "start_streaming" /\ pc' # pc)
          => /\ (pc = "start_check" /\ ~streaming) => pc' = "start_popen"
             /\ pc = "start_popen"
                  => /\ pc' = "idle" /\ ret'.val = "False"
                     /\ ~streaming' /\ ffmpeg_process' = None]_vars

\* without the encoder binary, a send_video has failed in its thread and a
\* later start_streaming() has returned False
C19_Witness ==
  /\ IsRT /\ avail = "missing"
  /\ pc = "idle" /\ ret.op = "start_streaming" /\ ret.val = "False"
  /\ ~streaming /\ ffmpeg_process = None
  /\ \E t \in ThreadIds : threads[t].kind = "video" /\ threads[t].pc = "dead"

\* what is a recognised resolution: for _parse_resolution the three names and
\* <integer>x<integer>; for the backends the four names
Recognised ==
  IF IsSM
    THEN \/ config \in {S480p, S720p, S1080p}
         \/ \E i \in 1..Len(config) :
              /\ config[i] = "x"
              /\ IsIntLiteral(SubSeq(config, 1, i - 1))
              /\ IsIntLiteral(SubSeq(config, i + 1, Len(config)))
    ELSE config \in {S1080p, S720p, S480p, S360p}
\* the mapping has been applied to the config: the constructor of the
\* manager has run; initialize of a backend has returned (for the virtual
\* camera, with the library present)
ResolutionSet ==
  \/ IsSM /\ pc = "idle"
  \/ IsRT /\ pc = "idle" /\ ret.op = "initialize"
  \/ IsVC /\ pc = "idle" /\ ret.op = "initialize" /\ avail # "missing"

\* C20: in StreamManager._parse_resolution and in initialize of both
\* backends, "1080p" gives 1920x1080, "720p" gives 1280x720, and every string
\* that is not a recognised resolution gives the default 1280x720.
C20_ResolutionMapping ==
  ResolutionSet =>
    /\ config = S1080p => resolution = <<1920, 1080>>
    /\ config = S720p => resolution = <<1280, 720>>
    /\ ~Recognised => resolution = <<1280, 720>>

\* the manager has been given "1x-" (an "x" with a part that is no integer)
\* and has fallen back to 1280x720
C20_Witness ==
  /\ IsSM /\ pc = "idle"
  /\ config = <<"1", "x", "-">>
  /\ resolution = <<1280, 720>>

\* C21: an item whose publish call has begun is not cut short by stop(): the
\* worker leaves the reading of the encoder's output only when the encoder
\* has ended by itself, and stop() does not terminate the encoder of an item
\* the worker is still publishing.
C21_ItemNotCutShort ==
  [][\A t \in ThreadIds :
       /\ (threads[t].kind = "worker" /\ threads[t].pc = "rtmp_lines"
            /\ threads'[t].pc # "rtmp_lines")
              => ~procs[threads[t].proc].alive
       /\ (WorkerBlocked(t) /\ pc = "stop_terminate" /\ pc' # pc)
              => procs'[threads[t].proc] = procs[threads[t].proc]]_vars

\* C22: a running encoder of the manager is terminated only by stop(), and
\* the handle of a running encoder is replaced only by stop(): neither
\* start() nor a worker beginning an item terminates or overwrites it.
C22_TerminatedOnlyByStop ==
  [][/\ \A p \in ProcIds :
          (procs[p].alive /\ ~procs[p].signalled /\ procs'[p].signalled)
            => pc = "stop_terminate"
     /\ (Running(stream_process) /\ stream_process' # stream_process)
            => pc = "stop_none"]_vars

C24_SharedStateLocked ==
  [][/\ (/\ IsVC /\ DeviceHolders # {}
         /\ (current_frame' # current_frame \/ streaming' # streaming))
           => queue_lock = "control"
     /\ queue_lock = "control"
           => pc \notin {"stop_join", "video_join", "cleanup_join"}]_vars

\* C25: with the flag cleared by stop() (and no start() since), no item is
\* taken from the queue and no encoder is spawned for an item.
C25_NothingBegunAfterStop ==
  [][(IsSM /\ ~is_streaming)
       => /\ Len(content_queue') >= Len(content_queue)
          /\ \A p \in ProcIds : procs[p].kind = "none" => procs'[p].kind = "none"]_vars

\* C26: no step of stop() changes the content queue, and an item is handed
\* to the publish call only when every item accepted before it has been:
\* what waited in the queue over a stop() and a start() goes first, in its
\* order.
C26_QueueKeptOverStop ==
  [][/\ (IsSM /\ ret.op = "stop" /\ pc' # pc) => content_queue' = content_queue
     /\ (Len(published') > Len(published))
           => \A n \in 1..(published'[Len(published')] - 1) : n \in PublishedItems]_vars

\* C27: on an RTMPStreamer with no call in progress and the streaming flag
\* down, no raw-frame encoder handle is attached and no one-shot encoder
\* process is running.
C27_FlagDownMeansNoEncoder ==
  (IsRT /\ pc = "idle" /\ ~streaming)
    => /\ ffmpeg_process = None
       /\ \A p \in ProcIds : procs[p].kind = "oneshot" => ~procs[p].alive

\* C28: on a VirtualCamera with no call in progress and the streaming flag
\* down, no device thread is sending frames to the camera.
C28_FlagDownMeansNoDevice ==
  (IsVC /\ pc = "idle" /\ ~streaming) => DeviceHolders = {}

\* C29: every device thread and playback thread that is alive when
\* stop_streaming() of a VirtualCamera has returned True eventually ends,
\* whatever is called afterwards.
C29_StoppedThreadsEnd ==
  \A t \in ThreadIds :
     (/\ IsVC /\ pc = "idle"
      /\ ret.op = "stop_streaming" /\ ret.val = "True"
      /\ threads[t].kind \in {"device", "playback"})
       ~> (threads[t].pc = "dead")

\* C30: the conversation_history of a ChatbotManager holds at most max_history
\* messages, and they are the last messages given to add_message, in the
\* order of the calls.
C30_HistoryBounded ==
  (inst = "ChatbotManager") =>
    /\ Len(conversation_history) <= max_history
    /\ conversation_history = slice(added, Len(added) - Len(conversation_history))

=============================================================================
